---- MODULE Spec2Model ----
(***************************************************************************)
(* Interval analysis engine of the chess repertoire builder: the analysis  *)
(* worker thread (worker.py), the round-robin game distribution            *)
(* (file_manager.py), the candidate filter and the game annotator          *)
(* (worker.py), and the Polyglot book accumulator (polyglot_writer.py).    *)
(*                                                                         *)
(* Several specifications share the module.  Spec is the pool of worker    *)
(* threads and FairSpec one scheduled thread of it; SpecDist, SpecFilter,  *)
(* SpecFeed, SpecGame, SpecLine, SpecBook, SpecBookCap, SpecPlan and       *)
(* SpecConfig exercise one function or object each, with the inputs drawn  *)
(* in Init.                                                                *)
(***************************************************************************)
EXTENDS Integers, Sequences, FiniteSets, TLC

VARIABLES
    \* ---- the pool of AnalysisWorker threads (Spec)
    totalGames,     \* number of games in the input PGN
    pgn_enabled,    \* config.pgn_enabled (with a temp PGN path)
    bin_enabled,    \* config.bin_enabled (with a temp book path)
    worker,         \* worker id -> the AnalysisWorker object and its thread
    stop_calls,     \* request_stop() calls made so far on the pool's workers
    \* ---- FileManager.distribute_games (SpecDist)
    dist,
    \* ---- AnalysisWorker._analyze_position (SpecFilter, SpecFeed)
    flt,
    \* ---- AnalysisWorker._analyze_game (SpecGame, SpecLine)
    ann,
    \* ---- PolyglotWriter (SpecBook, SpecBookCap)
    book,
    \* ---- generate_analysis_plies (SpecPlan)
    plan,
    \* ---- AnalysisConfig (SpecConfig)
    conf

vars ==
    <<totalGames, pgn_enabled, bin_enabled, worker, stop_calls, dist, flt, ann, book, plan,
      conf>>

(***************************************************************************)
(* Bounds of the model.                                                    *)
(***************************************************************************)
MaxGames == 2
MaxWorkers == 2
MaxPositions == 2
MaxStopRequests == 2
MaxDistGames == 12
MaxDistWorkers == 4

(***************************************************************************)
(* Generic helpers.                                                        *)
(***************************************************************************)
Range(s) == {s[i] : i \in DOMAIN s}

Min(a, b) == IF a <= b THEN a ELSE b

Abs(x) == IF x < 0 THEN -x ELSE x

(***************************************************************************)
(* FileManager.distribute_games: the loop over range(total_games) appends  *)
(* each index to the list of worker game_idx % num_workers.                *)
(***************************************************************************)
RECURSIVE DistributeLoop(_, _, _, _)
DistributeLoop(distribution, game_idx, total_games, num_workers) ==
    IF game_idx >= total_games THEN distribution
    ELSE LET worker_idx == game_idx % num_workers
         IN  DistributeLoop(
                 [distribution EXCEPT ![worker_idx] = Append(@, game_idx)],
                 game_idx + 1, total_games, num_workers)

distribute_games_from_one(total_games, num_workers) ==
    DistributeLoop([i \in 0 .. num_workers - 1 |-> << >>], 1,
                   total_games, num_workers)

distribute_games(total_games, num_workers) ==
    DistributeLoop([i \in 0 .. num_workers - 1 |-> << >>], 0,
                   total_games, num_workers)

(***************************************************************************)
(* The input games as the worker sees them: game g makes the annotator     *)
(* call the engine PositionsInGame(g) times (the planned own-side plies    *)
(* the game is long enough to reach); some games have none.               *)
(***************************************************************************)
PositionsInGame(g) == (g + 1) % (MaxPositions + 1)

(***************************************************************************)
(* AnalysisWorker.__init__: the object after construction, its thread not  *)
(* started.  pc is the thread's position in run()/_run_analysis();         *)
(* entries is the PolyglotWriter's list, temp_pgn and temp_bin the         *)
(* worker's temp files, entries_written what PolyglotWriter.write returned *)
(* (empty before the call), finished the worker_finished emissions, begun  *)
(* and annotated the games passed to and returned by _analyze_game.        *)
(***************************************************************************)
NewWorker(game_indices) ==
    [ pc               |-> "idle",
      game_indices     |-> Range(game_indices),
      stop_requested   |-> FALSE,
      engine           |-> FALSE,
      pgn_writer       |-> FALSE,
      polyglot_writer  |-> FALSE,
      game_index       |-> 0,
      games_processed  |-> 0,
      total_positions  |-> 0,
      positions        |-> 0,
      entries          |-> << >>,
      temp_pgn         |-> << >>,
      bin_written      |-> FALSE,
      temp_bin         |-> << >>,
      entries_written  |-> << >>,
      begun            |-> << >>,
      annotated        |-> << >>,
      finished         |-> << >> ]

Workers == DOMAIN worker

(* What a step of one worker thread leaves alone: the shared configuration *)
(* and input are read-only.                                                *)
PoolFrame ==
    UNCHANGED <<conf, plan, totalGames, pgn_enabled, bin_enabled, stop_calls,
                dist, flt, ann, book>>

Emit(success, message, games, positions) ==
    [success |-> success, message |-> message,
     games |-> games, positions |-> positions]

(* request_stop: sets the flag (and logs), whatever the thread is doing.    *)
RequestStopToggles(w) ==
    /\ stop_calls < MaxStopRequests
    /\ stop_calls' = stop_calls + 1
    /\ worker' = [worker EXCEPT ![w].stop_requested = ~@]
    /\ UNCHANGED <<conf, plan, totalGames, pgn_enabled, bin_enabled, dist, flt, ann, book>>

RequestStop(w) ==
    /\ stop_calls < MaxStopRequests
    /\ stop_calls' = stop_calls + 1
    /\ worker' = [worker EXCEPT ![w].stop_requested = TRUE]
    /\ UNCHANGED <<conf, plan, totalGames, pgn_enabled, bin_enabled, dist, flt, ann, book>>

(* QThread.start(): run() enters _run_analysis, which creates the          *)
(* EngineManager and calls load.                                           *)
Start(w) ==
    /\ worker[w].pc = "idle"
    /\ worker' = [worker EXCEPT ![w].pc = "loading"]
    /\ PoolFrame

(* engine.load succeeded.                                                  *)
LoadEngineOk(w) ==
    /\ worker[w].pc = "loading"
    /\ worker' = [worker EXCEPT ![w].pc = "setup", ![w].engine = TRUE]
    /\ PoolFrame

(* engine.load raised: EngineManager.load leaves engine None, the worker   *)
(* emits the failure and returns.                                          *)
LoadEngineFailFallsThrough(w) ==
    /\ worker[w].pc = "loading"
    /\ worker' = [worker EXCEPT
           ![w].pc = "setup",
           ![w].finished = Append(@, Emit(FALSE, "Failed to load engine", 0, 0))]
    /\ PoolFrame

LoadEngineFailCountsAssigned(w) ==
    /\ worker[w].pc = "loading"
    /\ worker' = [worker EXCEPT
           ![w].pc = "done",
           ![w].finished = Append(@, Emit(FALSE, "Failed to load engine",
                                          Cardinality(worker[w].game_indices), 0))]
    /\ PoolFrame

LoadEngineFail(w) ==
    /\ worker[w].pc = "loading"
    /\ worker' = [worker EXCEPT
           ![w].pc = "done",
           ![w].finished = Append(@, Emit(FALSE, "Failed to load engine", 0, 0))]
    /\ PoolFrame

(* Setup without the early return for an empty assignment.                 *)
SetupAlwaysLoops(w) ==
    /\ worker[w].pc = "setup"
    /\ worker' = [worker EXCEPT ![w].pgn_writer = pgn_enabled,
                                ![w].polyglot_writer = bin_enabled,
                                ![w].pc = "loop"]
    /\ PoolFrame

(* The writers are created, the assignment is counted; an empty one        *)
(* reports at once.                                                        *)
Setup(w) ==
    /\ worker[w].pc = "setup"
    /\ LET r == [worker[w] EXCEPT !.pgn_writer = pgn_enabled,
                                  !.polyglot_writer = bin_enabled]
       IN  worker' = [worker EXCEPT ![w] =
               IF Cardinality(r.game_indices) = 0
               THEN [r EXCEPT !.pc = "done",
                              !.finished = Append(@, Emit(TRUE, "No games assigned", 0, 0))]
               ELSE [r EXCEPT !.pc = "loop"]]
    /\ PoolFrame

(* NextGame leaving the loop at the first game that is not assigned.       *)
NextGameBreaksOnUnassigned(w) ==
    /\ worker[w].pc = "loop"
    /\ LET r == worker[w]
       IN  worker' = [worker EXCEPT ![w] =
               IF r.game_index >= totalGames THEN [r EXCEPT !.pc = "bookwrite"]
               ELSE IF r.stop_requested THEN [r EXCEPT !.pc = "bookwrite"]
               ELSE IF r.game_index \notin r.game_indices
                    THEN [r EXCEPT !.pc = "bookwrite"]
               ELSE [r EXCEPT !.pc = "analyzing",
                              !.games_processed = @ + 1,
                              !.positions = 0,
                              !.begun = Append(@, r.game_index)]]
    /\ PoolFrame

(* NextGame without the test of the assignment.                            *)
NextGameTakesEvery(w) ==
    /\ worker[w].pc = "loop"
    /\ LET r == worker[w]
       IN  worker' = [worker EXCEPT ![w] =
               IF r.game_index >= totalGames THEN [r EXCEPT !.pc = "bookwrite"]
               ELSE IF r.stop_requested THEN [r EXCEPT !.pc = "bookwrite"]
               ELSE [r EXCEPT !.pc = "analyzing",
                              !.games_processed = @ + 1,
                              !.positions = 0,
                              !.begun = Append(@, r.game_index)]]
    /\ PoolFrame

(* NextGame without the test of the stop flag.                             *)
NextGameIgnoresStop(w) ==
    /\ worker[w].pc = "loop"
    /\ LET r == worker[w]
       IN  worker' = [worker EXCEPT ![w] =
               IF r.game_index >= totalGames THEN [r EXCEPT !.pc = "bookwrite"]
               ELSE IF r.game_index \notin r.game_indices
                    THEN [r EXCEPT !.game_index = @ + 1]
               ELSE [r EXCEPT !.pc = "analyzing",
                              !.games_processed = @ + 1,
                              !.positions = 0,
                              !.begun = Append(@, r.game_index)]]
    /\ PoolFrame

(* One iteration head of the for loop over iterate_games_with_index: the   *)
(* iterator yields the next game or ends; the stop flag is read; a game    *)
(* not assigned is skipped; an assigned one is counted and handed to       *)
(* _analyze_game.                                                          *)
NextGame(w) ==
    /\ worker[w].pc = "loop"
    /\ LET r == worker[w]
       IN  worker' = [worker EXCEPT ![w] =
               IF r.game_index >= totalGames THEN [r EXCEPT !.pc = "bookwrite"]
               ELSE IF r.stop_requested THEN [r EXCEPT !.pc = "bookwrite"]
               ELSE IF r.game_index \notin r.game_indices
                    THEN [r EXCEPT !.game_index = @ + 1]
               ELSE [r EXCEPT !.pc = "analyzing",
                              !.games_processed = @ + 1,
                              !.positions = 0,
                              !.begun = Append(@, r.game_index)]]
    /\ PoolFrame

(* One engine round trip inside _analyze_game: the results go to the book  *)
(* when there is one, the position is counted.                             *)
AnalyzePositionChecksStop(w) ==
    /\ worker[w].pc = "analyzing"
    /\ worker[w].positions < PositionsInGame(worker[w].game_index)
    /\ LET r == worker[w]
       IN  worker' = [worker EXCEPT ![w] =
               IF r.stop_requested THEN [r EXCEPT !.pc = "bookwrite"]
               ELSE [r EXCEPT !.positions = @ + 1,
                      !.entries = IF r.polyglot_writer
                                  THEN Append(@, <<r.game_index, r.positions>>)
                                  ELSE @]]
    /\ PoolFrame

AnalyzePosition(w) ==
    /\ worker[w].pc = "analyzing"
    /\ worker[w].positions < PositionsInGame(worker[w].game_index)
    /\ LET r == worker[w]
       IN  worker' = [worker EXCEPT ![w] =
               [r EXCEPT !.positions = @ + 1,
                         !.entries = IF r.polyglot_writer
                                     THEN Append(@, <<r.game_index, r.positions>>)
                                     ELSE @]]
    /\ PoolFrame

(* The engine call raises: nothing in _analyze_game or _run_analysis       *)
(* catches it, run() does and emits the failure with counts 0, 0.          *)
EngineErrorCancelsSiblings(w) ==
    /\ worker[w].pc = "analyzing"
    /\ worker[w].positions < PositionsInGame(worker[w].game_index)
    /\ worker' = [v \in Workers |->
           IF v = w
           THEN [worker[v] EXCEPT !.pc = "done",
                                  !.finished = Append(@, Emit(FALSE, "Error", 0, 0))]
           ELSE [worker[v] EXCEPT !.stop_requested = TRUE]]
    /\ PoolFrame

EngineErrorWritesBook(w) ==
    /\ worker[w].pc = "analyzing"
    /\ worker[w].positions < PositionsInGame(worker[w].game_index)
    /\ worker' = [worker EXCEPT
           ![w].pc = "done",
           ![w].bin_written = worker[w].polyglot_writer /\ worker[w].entries # << >>,
           ![w].temp_bin = IF worker[w].polyglot_writer THEN worker[w].entries ELSE @,
           ![w].finished = Append(@, Emit(FALSE, "Error", 0, 0))]
    /\ PoolFrame

EngineErrorSilent(w) ==
    /\ worker[w].pc = "analyzing"
    /\ worker[w].positions < PositionsInGame(worker[w].game_index)
    /\ worker' = [worker EXCEPT ![w].pc = "done"]
    /\ PoolFrame

EngineError(w) ==
    /\ worker[w].pc = "analyzing"
    /\ worker[w].positions < PositionsInGame(worker[w].game_index)
    /\ worker' = [worker EXCEPT
           ![w].pc = "done",
           ![w].finished = Append(@, Emit(FALSE, "Error", 0, 0))]
    /\ PoolFrame

(* _analyze_game returns the output game and its count.                    *)
FinishGame(w) ==
    /\ worker[w].pc = "analyzing"
    /\ worker[w].positions = PositionsInGame(worker[w].game_index)
    /\ worker' = [worker EXCEPT
           ![w].pc = "writing",
           ![w].total_positions = @ + worker[w].positions,
           ![w].annotated = Append(@, worker[w].game_index)]
    /\ PoolFrame

(* The annotated game is appended to the temp PGN when there is a writer;  *)
(* the loop goes on to the next game of the input.                         *)
WriteGame(w) ==
    /\ worker[w].pc = "writing"
    /\ worker' = [worker EXCEPT
           ![w].pc = "loop",
           ![w].temp_pgn = IF worker[w].pgn_writer
                           THEN Append(@, worker[w].game_index) ELSE @,
           ![w].game_index = @ + 1]
    /\ PoolFrame

(* After the loop: PolyglotWriter.write, which writes no file for no       *)
(* entries.                                                                *)
WriteBook(w) ==
    /\ worker[w].pc = "bookwrite"
    /\ LET r == worker[w]
       IN  worker' = [worker EXCEPT ![w] =
               IF r.polyglot_writer /\ r.entries # << >>
               THEN [r EXCEPT !.pc = "closing", !.bin_written = TRUE,
                              !.temp_bin = r.entries,
                              !.entries_written = <<Len(r.entries)>>]
               ELSE IF r.polyglot_writer
               THEN [r EXCEPT !.pc = "closing", !.entries_written = <<0>>]
               ELSE [r EXCEPT !.pc = "closing"]]
    /\ PoolFrame

(* engine.close().                                                         *)
CloseEngine(w) ==
    /\ worker[w].pc = "closing"
    /\ worker' = [worker EXCEPT ![w].pc = "report", ![w].engine = FALSE]
    /\ PoolFrame

(* Report calling the run Stopped only when games were left unprocessed.   *)
ReportStoppedIfCutShort(w) ==
    /\ worker[w].pc = "report"
    /\ LET r == worker[w]
       IN  worker' = [worker EXCEPT ![w] =
               [r EXCEPT !.pc = "done",
                         !.finished = Append(@,
                             Emit(TRUE,
                                  IF r.games_processed < Cardinality(r.game_indices)
                                  THEN "Stopped" ELSE "Complete",
                                  r.games_processed, r.total_positions))]]
    /\ PoolFrame

(* The completion report: the stop flag is read once more.                 *)
Report(w) ==
    /\ worker[w].pc = "report"
    /\ LET r == worker[w]
       IN  worker' = [worker EXCEPT ![w] =
               [r EXCEPT !.pc = "done",
                         !.finished = Append(@,
                             Emit(TRUE,
                                  IF r.stop_requested THEN "Stopped" ELSE "Complete",
                                  r.games_processed, r.total_positions))]]
    /\ PoolFrame

(* The worker's state in the terms of the state machine                    *)
(* Idle -> Loading -> Running -> {Completed | Stopped | Failed}.           *)
WorkerState(r) ==
    CASE r.pc = "idle" -> "Idle"
      [] r.pc = "loading" -> "Loading"
      [] r.pc = "done" ->
            IF r.finished = << >> THEN "Vanished"
            ELSE LET last == r.finished[Len(r.finished)]
                 IN  IF ~last.success THEN "Failed"
                     ELSE IF last.message = "Stopped" THEN "Stopped"
                     ELSE "Completed"
      [] OTHER -> "Running"

(***************************************************************************)
(* The pool: the dispatcher has split totalGames games over the workers    *)
(* with distribute_games and constructed one AnalysisWorker per list.      *)
(***************************************************************************)
IdleDist ==
    [total_games |-> 0, num_workers |-> 1, done |-> FALSE, distribution |-> << >>]

IdleFlt ==
    [candidates |-> 0, tolerance |-> 0, results |-> << >>,
     done |-> FALSE, ranks |-> << >>, accepted |-> << >>]

IdleAnn == [pc |-> "returned"]

IdlePlan == [done |-> TRUE]

IdleConf == [created |-> FALSE]

IdleBook ==
    [entries |-> << >>, pc |-> "open", written |-> FALSE, file |-> << >>,
     bytes |-> << >>, returned |-> 0]

InitPool ==
    /\ totalGames \in 0 .. MaxGames
    /\ pgn_enabled \in BOOLEAN
    /\ bin_enabled \in BOOLEAN
    /\ pgn_enabled \/ bin_enabled
    /\ stop_calls = 0
    /\ \E num_workers \in 1 .. MaxWorkers :
           worker = [w \in 0 .. num_workers - 1 |->
                        NewWorker(distribute_games(totalGames, num_workers)[w])]

Init ==
    /\ InitPool
    /\ dist = IdleDist
    /\ flt = IdleFlt
    /\ ann = IdleAnn
    /\ book = IdleBook
    /\ plan = IdlePlan /\ conf = IdleConf

Next ==
    \/ \E w \in Workers : RequestStop(w)
    \/ \E w \in Workers : Start(w)
    \/ \E w \in Workers : LoadEngineOk(w)
    \/ \E w \in Workers : LoadEngineFail(w)
    \/ \E w \in Workers : Setup(w)
    \/ \E w \in Workers : NextGame(w)
    \/ \E w \in Workers : AnalyzePosition(w)
    \/ \E w \in Workers : EngineError(w)
    \/ \E w \in Workers : FinishGame(w)
    \/ \E w \in Workers : WriteGame(w)
    \/ \E w \in Workers : WriteBook(w)
    \/ \E w \in Workers : CloseEngine(w)
    \/ \E w \in Workers : Report(w)

Spec == Init /\ [][Next]_vars

(***************************************************************************)
(* Claims about the worker pool, checked under Spec.                       *)
(***************************************************************************)
LastReport(r) == r.finished[Len(r.finished)]

Succeeded(r) == r.pc = "done" /\ r.finished # << >> /\ LastReport(r).success

(* The games of the input that are assigned to the worker, ascending.      *)
AssignedInInput(r) ==
    SelectSeq([i \in 1 .. totalGames |-> i - 1], LAMBDA g : g \in r.game_indices)

(* C1: whenever a worker is between games, past its loop or has emitted a  *)
(* successful terminal report, every game it began has been annotated to   *)
(* its end and, when there is a PGN writer, written to the temp PGN: a     *)
(* stop request never makes the worker leave a game it began.              *)
C1_InFlightGameFinished ==
    \A w \in Workers :
        LET r == worker[w]
        IN  (r.pc \in {"loop", "bookwrite", "closing", "report"} \/ Succeeded(r))
                => /\ r.annotated = r.begun
                   /\ r.pgn_writer => r.temp_pgn = r.begun
                   /\ r.games_processed = Len(r.begun)

(* C1 witness: one worker with two games was stopped while its first game  *)
(* was the last one begun; it reports Stopped with that game annotated and *)
(* written.                                                                *)
C1_Witness ==
    /\ Workers = {0}
    /\ totalGames = 2
    /\ worker[0].pgn_writer
    /\ worker[0].stop_requested
    /\ Succeeded(worker[0])
    /\ LastReport(worker[0]).message = "Stopped"
    /\ worker[0].begun = <<0>>
    /\ worker[0].annotated = <<0>>
    /\ worker[0].temp_pgn = <<0>>

(* C2: a request_stop call changes nothing but the stop flag of one        *)
(* worker, and only from unset to set: a call on a worker whose flag is    *)
(* set, or that has emitted its terminal report, leaves the flag state,    *)
(* the processed games, the report and the output files as they were.      *)
C2_StopCoalesces ==
    [][stop_calls' # stop_calls =>
          /\ DOMAIN worker' = DOMAIN worker
          /\ \A w \in Workers :
                /\ worker'[w] = [worker[w] EXCEPT !.stop_requested = TRUE]
                /\ worker[w].stop_requested => worker'[w] = worker[w]
                /\ worker'[w].finished = worker[w].finished
                /\ worker'[w].temp_pgn = worker[w].temp_pgn
                /\ worker'[w].temp_bin = worker[w].temp_bin
             \/ worker'[w] = worker[w]]_vars

(* C2 witness: request_stop was called twice on the only worker, which     *)
(* reported Stopped.                                                       *)
C2_Witness ==
    /\ Workers = {0}
    /\ stop_calls = 2
    /\ worker[0].stop_requested
    /\ Succeeded(worker[0])
    /\ LastReport(worker[0]).message = "Stopped"
    /\ worker[0].games_processed = 1

(* C4: the step in which a worker fails (load failure or engine error)     *)
(* changes nothing of any sibling, and a sibling that completes reports    *)
(* the counts of its own assignment whatever happened to the others.       *)
C4_FailureIsolation ==
    /\ [][\A w \in Workers :
             (worker'[w].finished # worker[w].finished
                 /\ ~worker'[w].finished[Len(worker'[w].finished)].success)
             => \A v \in Workers \ {w} : worker'[v] = worker[v]]_vars
    /\ [](\A v \in Workers :
             LET r == worker[v]
             IN  (Succeeded(r) /\ LastReport(r).message = "Complete")
                     => /\ r.begun = AssignedInInput(r)
                        /\ LastReport(r).games = Len(AssignedInInput(r)))

(* C4 witness: worker 0 failed on an engine error and worker 1 completed   *)
(* its game without any stop request.                                      *)
C4_Witness ==
    /\ Workers = {0, 1}
    /\ totalGames = 2
    /\ worker[0].pc = "done"
    /\ ~LastReport(worker[0]).success
    /\ LastReport(worker[0]).message = "Error"
    /\ Succeeded(worker[1])
    /\ ~worker[1].stop_requested
    /\ LastReport(worker[1]) = Emit(TRUE, "Complete", 1, PositionsInGame(1))

(* C5: a worker moves Idle -> Loading -> Running -> Completed, Stopped or  *)
(* Failed (Loading may go to Failed), its thread has ended exactly when it *)
(* has emitted one terminal report, it never emits a second, and after the *)
(* report it begins, counts, annotates and writes no game.                 *)
StateMachineEdges ==
    { <<"Idle", "Loading">>, <<"Loading", "Running">>, <<"Loading", "Failed">>,
      <<"Running", "Completed">>, <<"Running", "Stopped">>, <<"Running", "Failed">> }

C5_StateMachineOneReport ==
    /\ [](\A w \in Workers :
             /\ Len(worker[w].finished) <= 1
             /\ worker[w].pc = "done" <=> Len(worker[w].finished) = 1)
    /\ [][\A w \in Workers :
             /\ \/ WorkerState(worker'[w]) = WorkerState(worker[w])
                \/ <<WorkerState(worker[w]), WorkerState(worker'[w])>> \in StateMachineEdges
             /\ worker[w].finished # << >> =>
                   /\ worker'[w].finished = worker[w].finished
                   /\ worker'[w].begun = worker[w].begun
                   /\ worker'[w].annotated = worker[w].annotated
                   /\ worker'[w].games_processed = worker[w].games_processed
                   /\ worker'[w].temp_pgn = worker[w].temp_pgn]_vars

(* C5 witness: both workers have ended with one report each, one on an     *)
(* exception raised during analysis, the other stopped.                    *)
C5_Witness ==
    /\ Workers = {0, 1}
    /\ WorkerState(worker[0]) = "Failed"
    /\ worker[0].finished = <<Emit(FALSE, "Error", 0, 0)>>
    /\ worker[0].begun # << >>
    /\ WorkerState(worker[1]) = "Stopped"
    /\ Len(worker[1].finished) = 1

(***************************************************************************)
(* SpecDist: distribute_games applied to every (total_games, num_workers)  *)
(* within the bounds.                                                      *)
(***************************************************************************)
InitDist ==
    /\ \E total_games \in 0 .. MaxDistGames, num_workers \in 1 .. MaxDistWorkers :
           dist = [total_games |-> total_games, num_workers |-> num_workers,
                   done |-> FALSE, distribution |-> << >>]
    /\ plan = IdlePlan /\ conf = IdleConf
    /\ totalGames = 0 /\ pgn_enabled = TRUE /\ bin_enabled = TRUE
    /\ worker = << >> /\ stop_calls = 0
    /\ flt = IdleFlt /\ ann = IdleAnn /\ book = IdleBook

Distribute ==
    /\ ~dist.done
    /\ dist' = [dist EXCEPT !.done = TRUE,
                            !.distribution = distribute_games(dist.total_games,
                                                              dist.num_workers)]
    /\ UNCHANGED <<conf, plan, totalGames, pgn_enabled, bin_enabled, worker, stop_calls,
                   flt, ann, book>>

NextDist == Distribute

SpecDist == InitDist /\ [][NextDist]_vars

IsAscending(s) == \A i, j \in DOMAIN s : i < j => s[i] < s[j]

(* C3: the distribution has one list per worker; list i is the ascending   *)
(* sequence of the indices g in [0, total_games) with g mod N = i; so      *)
(* every index is in exactly one list and the sizes differ by at most 1.   *)
C3_RoundRobin ==
    dist.done =>
        LET N == dist.num_workers
            d == dist.distribution
        IN  /\ DOMAIN d = 0 .. N - 1
            /\ \A i \in 0 .. N - 1 :
                  /\ Range(d[i]) = {g \in 0 .. dist.total_games - 1 : g % N = i}
                  /\ IsAscending(d[i])
            /\ \A g \in 0 .. dist.total_games - 1 :
                  Cardinality({i \in 0 .. N - 1 : g \in Range(d[i])}) = 1
            /\ \A i, j \in 0 .. N - 1 : Len(d[i]) - Len(d[j]) \in {-1, 0, 1}
            /\ (dist.total_games = 10 /\ N = 3) =>
                  d = (0 :> <<0, 3, 6, 9>> @@ 1 :> <<1, 4, 7>> @@ 2 :> <<2, 5, 8>>)

(* C3 witness: distribute_games(10, 3) has returned.                       *)
C3_Witness ==
    /\ dist.done
    /\ dist.total_games = 10
    /\ dist.num_workers = 3
    /\ Len(dist.distribution[0]) = 4
    /\ Len(dist.distribution[2]) = 3

(***************************************************************************)
(* EngineManager.analyze and AnalysisWorker._analyze_position.             *)
(*                                                                         *)
(* An Optional[int] is << >> (None) or <<v>>.  An info is what the engine  *)
(* library hands back for one line: its pv (possibly empty) and its score, *)
(* << >> when the engine sent none, <<"cp", v>> or <<"mate", n>>.  A pv is *)
(* a sequence of [move, legal]: legal is what `move in board.legal_moves`  *)
(* answers when the line is replayed up to that move.                      *)
(***************************************************************************)
None == << >>

Some(v) == <<v>>

(* analyze, lines 209-234: one AnalysisResult per info with a pv.          *)
ResultOfInfo(info) ==
    [ move       |-> info.pv[1].move,
      pv         |-> info.pv,
      score_cp   |-> IF info.score # None /\ info.score[1] = "cp"
                     THEN Some(info.score[2]) ELSE None,
      score_mate |-> IF info.score # None /\ info.score[1] = "mate"
                     THEN Some(info.score[2]) ELSE None ]

RECURSIVE analyze(_)
analyze(infos) ==
    IF infos = << >> THEN << >>
    ELSE IF Head(infos).pv = << >> THEN analyze(Tail(infos))
    ELSE <<ResultOfInfo(Head(infos))>> \o analyze(Tail(infos))

is_mate(result) == result.score_mate # None

(* _analyze_position, lines 264-296: the loop over enumerate(results);     *)
(* ranks collects the index i of every result appended to accepted.        *)
RECURSIVE FilterLoopStrict(_, _, _, _)
FilterLoopStrict(results, tolerance, i, ranks) ==
    IF i > Len(results) THEN ranks
    ELSE LET result == results[i]
             best_score == results[1].score_cp
         IN  IF is_mate(result)
             THEN FilterLoopStrict(results, tolerance, i + 1, Append(ranks, i - 1))
             ELSE IF best_score = None \/ result.score_cp = None
             THEN FilterLoopStrict(results, tolerance, i + 1, ranks)
             ELSE IF Abs(best_score[1] - result.score_cp[1]) < tolerance
             THEN FilterLoopStrict(results, tolerance, i + 1, Append(ranks, i - 1))
             ELSE FilterLoopStrict(results, tolerance, i + 1, ranks)

RECURSIVE FilterLoopBestFirst(_, _, _, _)
FilterLoopBestFirst(results, tolerance, i, ranks) ==
    IF i > Len(results) THEN ranks
    ELSE LET result == results[i]
             best_score == results[1].score_cp
         IN  IF best_score = None
             THEN FilterLoopBestFirst(results, tolerance, i + 1, ranks)
             ELSE IF is_mate(result)
             THEN FilterLoopBestFirst(results, tolerance, i + 1, Append(ranks, i - 1))
             ELSE IF result.score_cp = None
             THEN FilterLoopBestFirst(results, tolerance, i + 1, ranks)
             ELSE IF Abs(best_score[1] - result.score_cp[1]) <= tolerance
             THEN FilterLoopBestFirst(results, tolerance, i + 1, Append(ranks, i - 1))
             ELSE FilterLoopBestFirst(results, tolerance, i + 1, ranks)

RECURSIVE FilterLoop(_, _, _, _)
FilterLoop(results, tolerance, i, ranks) ==
    IF i > Len(results) THEN ranks
    ELSE LET result == results[i]
             best_score == results[1].score_cp
         IN  IF is_mate(result)
             THEN FilterLoop(results, tolerance, i + 1, Append(ranks, i - 1))
             ELSE IF best_score = None
             THEN FilterLoop(results, tolerance, i + 1, ranks)
             ELSE IF result.score_cp = None
             THEN FilterLoop(results, tolerance, i + 1, ranks)
             ELSE IF Abs(best_score[1] - result.score_cp[1]) <= tolerance
             THEN FilterLoop(results, tolerance, i + 1, Append(ranks, i - 1))
             ELSE FilterLoop(results, tolerance, i + 1, ranks)

(* The ranks (indices into results, 0 = best) _analyze_position accepts.   *)
AcceptedRanksFromSecond(results, tolerance) ==
    IF results = << >> THEN << >> ELSE FilterLoop(results, tolerance, 2, << >>)

AcceptedRanks(results, tolerance) ==
    IF results = << >> THEN << >> ELSE FilterLoop(results, tolerance, 1, << >>)

(* _analyze_position: the accepted results, a plain list.                  *)
analyze_position(results, tolerance) ==
    LET ranks == AcceptedRanks(results, tolerance)
    IN  [k \in 1 .. Len(ranks) |-> results[ranks[k] + 1]]

(***************************************************************************)
(* SpecFilter: one call of _analyze_position on every engine answer of at  *)
(* most `candidates` lines over the scores below.                          *)
(***************************************************************************)
MinCandidates == 1
MaxCandidates == 3

Tolerances == {50, 90}

FilterScores ==
    {None, <<"mate", 2>>, <<"cp", 30>>, <<"cp", -60>>, <<"cp", 40>>, <<"cp", 80>>}

FilterPvs == {<< >>, <<[move |-> 1, legal |-> TRUE]>>}

FilterInfos == [pv : FilterPvs, score : FilterScores]

SeqsUpTo(S, n) == UNION {[1 .. k -> S] : k \in 0 .. n}

InitFilter ==
    /\ \E candidates \in MinCandidates .. MaxCandidates, tolerance \in Tolerances :
          \E infos \in SeqsUpTo(FilterInfos, candidates) :
              flt = [candidates |-> candidates, tolerance |-> tolerance,
                     results |-> analyze(infos),
                     done |-> FALSE, ranks |-> << >>, accepted |-> << >>]
    /\ plan = IdlePlan /\ conf = IdleConf
    /\ totalGames = 0 /\ pgn_enabled = TRUE /\ bin_enabled = TRUE
    /\ worker = << >> /\ stop_calls = 0
    /\ dist = IdleDist /\ ann = IdleAnn /\ book = IdleBook

FilterPosition ==
    /\ ~flt.done
    /\ flt' = [flt EXCEPT !.done = TRUE,
                          !.ranks = AcceptedRanks(flt.results, flt.tolerance),
                          !.accepted = analyze_position(flt.results, flt.tolerance)]
    /\ UNCHANGED <<conf, plan, totalGames, pgn_enabled, bin_enabled, worker, stop_calls,
                   dist, ann, book>>

NextFilter == FilterPosition

SpecFilter == InitFilter /\ [][NextFilter]_vars

HasCp(result) == ~is_mate(result) /\ result.score_cp # None

CpResult(v) ==
    [move |-> 1, pv |-> <<[move |-> 1, legal |-> TRUE]>>,
     score_cp |-> Some(v), score_mate |-> None]

(* C7: a non-mate result with a centipawn score is accepted iff the rank-0 *)
(* result has a centipawn score best and |best - cp| <= tolerance; the     *)
(* accepted list is the input list restricted to ascending accepted ranks; *)
(* cp 30, -60, 40 with tolerance 50 accepts ranks 0 and 2.                 *)
C7_ToleranceRule ==
    flt.done =>
        /\ \A i \in DOMAIN flt.results :
              HasCp(flt.results[i]) =>
                  ( (i - 1) \in Range(flt.ranks)
                    <=> /\ flt.results[1].score_cp # None
                        /\ Abs(flt.results[1].score_cp[1] - flt.results[i].score_cp[1])
                               <= flt.tolerance )
        /\ IsAscending(flt.ranks)
        /\ Range(flt.ranks) \subseteq 0 .. Len(flt.results) - 1
        /\ Len(flt.accepted) = Len(flt.ranks)
        /\ \A k \in DOMAIN flt.accepted : flt.accepted[k] = flt.results[flt.ranks[k] + 1]
        /\ (flt.results = <<CpResult(30), CpResult(-60), CpResult(40)>> /\ flt.tolerance = 50)
              => flt.ranks = <<0, 2>>

(* C7 witness: the filter has run on cp 30, -60, 40 with tolerance 50.     *)
C7_Witness ==
    /\ flt.done
    /\ flt.tolerance = 50
    /\ flt.results = <<CpResult(30), CpResult(-60), CpResult(40)>>
    /\ flt.accepted = <<CpResult(30), CpResult(40)>>

(* C8: every result with a mate score is accepted, whatever its rank, the  *)
(* tolerance and the kind of score of the rank-0 result.                   *)
C8_MateAlwaysAccepted ==
    flt.done =>
        \A i \in DOMAIN flt.results :
            is_mate(flt.results[i]) =>
                /\ (i - 1) \in Range(flt.ranks)
                /\ \E k \in DOMAIN flt.accepted : flt.accepted[k] = flt.results[i]

(* C8 witness: a mate ranked last of three is accepted although the best   *)
(* is itself a mate and the centipawn result between them is rejected.     *)
C8_Witness ==
    /\ flt.done
    /\ Len(flt.results) = 3
    /\ is_mate(flt.results[1])
    /\ HasCp(flt.results[2])
    /\ is_mate(flt.results[3])
    /\ flt.ranks = <<0, 2>>

(* C9 as stated: the accepted list is non-empty whenever the result list   *)
(* is, and holds at most `candidates` results.                             *)
C9_Original ==
    flt.done =>
        /\ flt.results # << >> => flt.accepted # << >>
        /\ Len(flt.accepted) <= flt.candidates

(* C9 amended: the accepted list is non-empty whenever the result list is  *)
(* non-empty and its rank-0 result carries a score (mate or centipawns);   *)
(* it is never longer than the result list, which holds at most            *)
(* `candidates` lines.                                                     *)
C9_NonEmptyWhenBestScored ==
    flt.done =>
        /\ (flt.results # << >>
               /\ (is_mate(flt.results[1]) \/ flt.results[1].score_cp # None))
              => (flt.accepted # << >> /\ flt.ranks[1] = 0)
        /\ Len(flt.accepted) <= Len(flt.results)
        /\ Len(flt.results) <= flt.candidates
        /\ Len(flt.accepted) <= flt.candidates

(* C9 witness: three lines were requested and returned, the best with a    *)
(* centipawn score, and only the best was accepted.                        *)
C9_Witness ==
    /\ flt.done
    /\ flt.candidates = 3
    /\ Len(flt.results) = 3
    /\ HasCp(flt.results[1])
    /\ flt.ranks = <<0>>

(***************************************************************************)
(* PolyglotWriter.  A move is [from_square, to_square, promotion] with     *)
(* squares 0..63 (a1 = 0, h8 = 63) and promotion 0 (none) or a piece type  *)
(* (knight 2, bishop 3, rook 4, queen 5).  An entry is                     *)
(* <<hash, encoded_move, weight>>.                                         *)
(***************************************************************************)
MaxWeight == 65535

CANDIDATE_WEIGHTS(candidate_rank) ==
    CASE candidate_rank = 0 -> 100
      [] candidate_rank = 1 -> 50
      [] candidate_rank = 2 -> 25
      [] OTHER -> 25

square_file(square) == square % 8

square_rank(square) == square \div 8

(* _encode_move: the bit fields do not overlap, so | is +.                 *)
encode_move(move) ==
    LET promotion == CASE move.promotion = 2 -> 1
                       [] move.promotion = 3 -> 2
                       [] move.promotion = 4 -> 3
                       [] move.promotion = 5 -> 4
                       [] OTHER -> 0
    IN  square_file(move.to_square)
          + square_rank(move.to_square) * 8
          + square_file(move.from_square) * 64
          + square_rank(move.from_square) * 512
          + promotion * 4096

(* A 64-bit hash is written as its four 16-bit words, most significant     *)
(* first; HashLess is < on the numbers so written.                         *)
WordCount == 4

WordMax == 65535

RECURSIVE HashLessFrom(_, _, _)
HashLessFrom(a, b, k) ==
    IF k > WordCount THEN FALSE
    ELSE IF a[k] # b[k] THEN a[k] < b[k]
    ELSE HashLessFrom(a, b, k + 1)

HashLess(a, b) == HashLessFrom(a, b, 1)

(* chess.polyglot.zobrist_hash of the position numbered n: different       *)
(* positions get different hashes, spread over the 64 bits.                *)
zobrist_hash(n) == <<(n * 4096) % (WordMax + 1), n * 257, WordMax - n, n>>

(* add_entry: the list after the append.                                   *)
add_entry(entries, pos_hash, move, candidate_rank) ==
    Append(entries, <<pos_hash, encode_move(move), CANDIDATE_WEIGHTS(candidate_rank)>>)

(* _merge_duplicates: merged_dict as the list of its items in insertion    *)
(* order, which is the order of the returned list.                         *)
KeyIndex(merged, pos_hash, encoded_move) ==
    {j \in DOMAIN merged : merged[j][1] = pos_hash /\ merged[j][2] = encoded_move}

(* One iteration of the loop over self.entries, lines 112-118.             *)
MergeStepAdjacent(merged, e) ==
    LET n == Len(merged)
    IN  IF n > 0 /\ merged[n][1] = e[1] /\ merged[n][2] = e[2]
        THEN [merged EXCEPT ![n] = <<e[1], e[2], Min(MaxWeight, merged[n][3] + e[3])>>]
        ELSE Append(merged, e)

MergeStepWraps(merged, e) ==
    LET at == KeyIndex(merged, e[1], e[2])
    IN  IF at # {}
        THEN LET j == CHOOSE j \in at : TRUE
             IN  [merged EXCEPT ![j] = <<e[1], e[2], (merged[j][3] + e[3]) % (MaxWeight + 1)>>]
        ELSE Append(merged, e)

MergeStep(merged, e) ==
    LET at == KeyIndex(merged, e[1], e[2])
    IN  IF at # {}
        THEN LET j == CHOOSE j \in at : TRUE
             IN  [merged EXCEPT ![j] = <<e[1], e[2], Min(MaxWeight, merged[j][3] + e[3])>>]
        ELSE Append(merged, e)

(* The loop over entries[lo .. hi] in list order, starting from merged.    *)
(* The range is split in two and the dict after the first half is computed *)
(* (the test on left) before the second half is entered, so that the       *)
(* evaluation of a long list stays shallow.                                *)
RECURSIVE MergeLoop(_, _, _, _)
MergeLoop(entries, lo, hi, merged) ==
    IF lo > hi THEN merged
    ELSE IF lo = hi THEN MergeStep(merged, entries[lo])
    ELSE LET mid == (lo + hi) \div 2
             left == MergeLoop(entries, lo, mid, merged)
         IN  IF left = << >> THEN MergeLoop(entries, mid + 1, hi, << >>)
             ELSE MergeLoop(entries, mid + 1, hi, left)

merge_duplicates(entries) == MergeLoop(entries, 1, Len(entries), << >>)

(* list.sort(key=lambda x: x[0]): a stable sort on the hash alone.         *)
RECURSIVE InsertByHash(_, _)
InsertByHash(sorted, e) ==
    IF sorted = << >> THEN <<e>>
    ELSE IF HashLess(e[1], Head(sorted)[1]) THEN <<e>> \o sorted
    ELSE <<Head(sorted)>> \o InsertByHash(Tail(sorted), e)

RECURSIVE SortByHash(_)
SortByHash(list) ==
    IF list = << >> THEN << >>
    ELSE InsertByHash(SortByHash(SubSeq(list, 1, Len(list) - 1)), list[Len(list)])

(* write: the records handed to struct.pack, in file order; no file for no *)
(* entries.                                                                *)
write_records(entries) ==
    IF entries = << >> THEN << >> ELSE SortByHash(merge_duplicates(entries))

(* struct.pack('>QHHi', pos_hash, encoded_move, weight, 0): big-endian,    *)
(* no padding; the bytes are numbers 0..255.                               *)
pack_H_little(x) == <<x % 256, x \div 256>>

pack_H(x) == <<x \div 256, x % 256>>

RECURSIVE pack_Q_from(_, _)
pack_Q_from(x, k) ==
    IF k > WordCount THEN << >> ELSE pack_H(x[k]) \o pack_Q_from(x, k + 1)

pack_Q(x) == pack_Q_from(x, 1)

pack_i(x) == <<x \div 16777216, (x \div 65536) % 256, (x \div 256) % 256, x % 256>>

pack_entry(pos_hash, encoded_move, weight) ==
    pack_Q(pos_hash) \o pack_H(encoded_move) \o pack_H(weight) \o pack_i(0)

(* The bytes of the file after the loop of f.write calls.                  *)
RECURSIVE write_bytes(_)
write_bytes(merged) ==
    IF merged = << >> THEN << >>
    ELSE pack_entry(Head(merged)[1], Head(merged)[2], Head(merged)[3])
             \o write_bytes(Tail(merged))

(* Reading a book back: the file is cut into records of RecordSize bytes   *)
(* with the layout of the format, each field big-endian.                   *)
RecordSize == 16

unpack_H(bytes, at) == bytes[at] * 256 + bytes[at + 1]

unpack_Q(bytes, at) == [k \in 1 .. WordCount |-> unpack_H(bytes, at + 2 * (k - 1))]

unpack_record(bytes, at) ==
    <<unpack_Q(bytes, at), unpack_H(bytes, at + 8), unpack_H(bytes, at + 10)>>

unpack_learn(bytes, at) == SubSeq(bytes, at + 12, at + 15)

unpack_records(bytes) ==
    [n \in 1 .. (Len(bytes) \div RecordSize) |-> unpack_record(bytes, (n - 1) * RecordSize + 1)]

(***************************************************************************)
(* SpecBook: a PolyglotWriter that receives add_entry calls and is then    *)
(* written once, as the worker does after its game loop.                   *)
(***************************************************************************)
MaxEntries == 3
MaxRank == 3

BookHashes == {zobrist_hash(5), zobrist_hash(9)}

BookMoves ==
    { [from_square |-> 12, to_square |-> 28, promotion |-> 0],
      [from_square |-> 52, to_square |-> 60, promotion |-> 5] }

InitBook ==
    /\ book = [entries |-> << >>, pc |-> "open", written |-> FALSE,
               file |-> << >>, bytes |-> << >>, returned |-> 0]
    /\ plan = IdlePlan /\ conf = IdleConf
    /\ totalGames = 0 /\ pgn_enabled = TRUE /\ bin_enabled = TRUE
    /\ worker = << >> /\ stop_calls = 0
    /\ dist = IdleDist /\ flt = IdleFlt /\ ann = IdleAnn

AddEntry ==
    /\ book.pc = "open"
    /\ Len(book.entries) < MaxEntries
    /\ \E pos_hash \in BookHashes, move \in BookMoves, candidate_rank \in 0 .. MaxRank :
           book' = [book EXCEPT !.entries = add_entry(@, pos_hash, move, candidate_rank)]
    /\ UNCHANGED <<conf, plan, totalGames, pgn_enabled, bin_enabled, worker, stop_calls,
                   dist, flt, ann>>

WriteBookFile ==
    /\ book.pc = "open"
    /\ book' = [book EXCEPT !.pc = "written",
                            !.written = (book.entries # << >>),
                            !.file = write_records(book.entries),
                            !.bytes = write_bytes(write_records(book.entries)),
                            !.returned = Len(write_records(book.entries))]
    /\ UNCHANGED <<conf, plan, totalGames, pgn_enabled, bin_enabled, worker, stop_calls,
                   dist, flt, ann>>

NextBook == AddEntry \/ WriteBookFile

SpecBook == InitBook /\ [][NextBook]_vars

(* The sum of the weights added for a pair, counted per weight: it does    *)
(* not depend on the order of the additions.                               *)
AddedWeight(entries, pos_hash, encoded_move) ==
    100 * Cardinality({i \in DOMAIN entries : entries[i] = <<pos_hash, encoded_move, 100>>})
    + 50 * Cardinality({i \in DOMAIN entries : entries[i] = <<pos_hash, encoded_move, 50>>})
    + 25 * Cardinality({i \in DOMAIN entries : entries[i] = <<pos_hash, encoded_move, 25>>})

AddedKeys(entries) == {<<entries[i][1], entries[i][2]>> : i \in DOMAIN entries}

(* C10: the written records hold each added (hash, move) pair exactly once *)
(* and no other pair; a record's weight is the sum of the weights added    *)
(* for its pair (the sums here are below the cap), whatever the order of   *)
(* the additions; (H, M) added twice at rank 0 and once at rank 1, in any  *)
(* order, gives the single record (H, M, 250).                             *)
C10_MergeSumsWeights ==
    book.pc = "written" =>
        /\ \A i, j \in DOMAIN book.file :
              (book.file[i][1] = book.file[j][1] /\ book.file[i][2] = book.file[j][2])
                  => i = j
        /\ {<<book.file[i][1], book.file[i][2]>> : i \in DOMAIN book.file}
               = AddedKeys(book.entries)
        /\ \A i \in DOMAIN book.file :
              /\ AddedWeight(book.entries, book.file[i][1], book.file[i][2]) <= MaxWeight
              /\ book.file[i][3] = AddedWeight(book.entries, book.file[i][1], book.file[i][2])
        /\ \A e \in Range(book.entries) :
              ( /\ Len(book.entries) = 3
                /\ AddedKeys(book.entries) = {<<e[1], e[2]>>}
                /\ Cardinality({i \in DOMAIN book.entries : book.entries[i][3] = 100}) = 2
                /\ Cardinality({i \in DOMAIN book.entries : book.entries[i][3] = 50}) = 1 )
              => book.file = <<<<e[1], e[2], 250>>>>

(* C10 witness: the pair was added at rank 0, then rank 1, then rank 0     *)
(* again, and the book written: one record of weight 250.                  *)
C10_Witness ==
    /\ book.pc = "written"
    /\ book.written
    /\ Len(book.entries) = 3
    /\ book.entries[1][3] = 100
    /\ book.entries[2][3] = 50
    /\ book.entries[3][3] = 100
    /\ Len(book.file) = 1
    /\ book.file[1][3] = 250

(***************************************************************************)
(* ply_utils: move_to_ply and generate_analysis_plies.                     *)

(* The lists that hold the same additions as entries in another order.     *)
Reorderings(entries) ==
    LET n == Len(entries)
    IN  { [i \in 1 .. n |-> entries[p[i]]] :
            p \in {q \in [1 .. n -> 1 .. n] : \A i, j \in 1 .. n : q[i] = q[j] => i = j} }

(* C12: the written records are those of every other insertion order of    *)
(* the same additions, and they ascend by hash with records of equal hash  *)
(* ascending by encoded move.                                              *)
C12_BookDeterministic ==
    book.pc = "written" =>
        /\ \A other \in Reorderings(book.entries) : write_records(other) = book.file
        /\ \A i, j \in DOMAIN book.file :
              i < j => \/ HashLess(book.file[i][1], book.file[j][1])
                       \/ /\ book.file[i][1] = book.file[j][1]
                          /\ book.file[i][2] < book.file[j][2]

(* C13: the bytes of the written file are 16 per record; read back with    *)
(* the layout of the format they give exactly the merged (hash, move,      *)
(* weight) triples, in non-decreasing hash order, with a zero learn field; *)
(* the moves are below 2^15 and the weights at most 65535.                 *)
C13_BookRoundTrip ==
    book.pc = "written" =>
        /\ Len(book.bytes) = RecordSize * Len(book.file)
        /\ \A b \in Range(book.bytes) : b \in 0 .. 255
        /\ unpack_records(book.bytes) = book.file
        /\ Len(book.file) = Len(merge_duplicates(book.entries))
        /\ Range(unpack_records(book.bytes)) = Range(merge_duplicates(book.entries))
        /\ \A i, j \in DOMAIN book.file :
              i < j => ~HashLess(unpack_records(book.bytes)[j][1],
                                 unpack_records(book.bytes)[i][1])
        /\ \A n \in DOMAIN book.file :
              /\ unpack_learn(book.bytes, (n - 1) * RecordSize + 1) = <<0, 0, 0, 0>>
              /\ book.file[n][2] < 32768
              /\ book.file[n][3] <= MaxWeight

C13_Witness ==
    /\ book.pc = "written"
    /\ Len(book.entries) = 3
    /\ Len(book.file) = 2
    /\ HashLess(book.file[1][1], book.file[2][1])
    /\ HashLess(book.entries[3][1], book.entries[1][1])
    /\ book.file[2][3] > 100
    /\ book.file[1][2] > 255
    /\ unpack_records(book.bytes) = book.file

(***************************************************************************)
(* SpecBookCap: a PolyglotWriter late in a long run.  The same (hash,      *)
(* move) pair has already been added at rank 0 often enough for its sum to *)
(* stand just below the 16-bit maximum; a few more additions follow and    *)
(* the book is written.                                                    *)
(***************************************************************************)
SeedEntries == 655

SeedHash == zobrist_hash(5)

SeedMove == [from_square |-> 12, to_square |-> 28, promotion |-> 0]

(* The entries after n calls add_entry(board, SeedMove, 0) on one board.   *)
AddSeed(n) == [i \in 1 .. n |-> add_entry(<< >>, SeedHash, SeedMove, 0)[1]]

InitBookCap ==
    /\ \E n \in SeedEntries - 1 .. SeedEntries :
          book = [entries |-> AddSeed(n), pc |-> "open", written |-> FALSE,
                  file |-> << >>, bytes |-> << >>, returned |-> 0]
    /\ plan = IdlePlan /\ conf = IdleConf
    /\ totalGames = 0 /\ pgn_enabled = TRUE /\ bin_enabled = TRUE
    /\ worker = << >> /\ stop_calls = 0
    /\ dist = IdleDist /\ flt = IdleFlt /\ ann = IdleAnn

AddEntryLate ==
    /\ book.pc = "open"
    /\ Len(book.entries) < SeedEntries + MaxEntries - 1
    /\ \E move \in BookMoves, candidate_rank \in 0 .. MaxRank :
           book' = [book EXCEPT !.entries = add_entry(@, SeedHash, move, candidate_rank)]
    /\ UNCHANGED <<conf, plan, totalGames, pgn_enabled, bin_enabled, worker, stop_calls,
                   dist, flt, ann>>

NextBookCap == AddEntryLate \/ WriteBookFile

SpecBookCap == InitBookCap /\ [][NextBookCap]_vars

(* C11: every written record's weight is min(65535, sum of the weights     *)
(* added for its pair), so it lies in 1..65535; a sum above the 16-bit     *)
(* maximum is written as 65535, never as the sum modulo 2^16.              *)
C11_WeightSaturates ==
    book.pc = "written" =>
        \A i \in DOMAIN book.file :
            LET sum == AddedWeight(book.entries, book.file[i][1], book.file[i][2])
            IN  /\ book.file[i][3] = Min(MaxWeight, sum)
                /\ book.file[i][3] \in 1 .. MaxWeight
                /\ sum > MaxWeight => /\ book.file[i][3] = MaxWeight
                                      /\ book.file[i][3] # sum % (MaxWeight + 1)

C11_Witness ==
    /\ book.pc = "written"
    /\ \E i \in DOMAIN book.file :
          /\ AddedWeight(book.entries, book.file[i][1], book.file[i][2]) > MaxWeight
          /\ book.file[i][3] = MaxWeight
    /\ \E i \in DOMAIN book.file : book.file[i][3] < 100

(***************************************************************************)
move_to_ply_white_only(move_number, perspective) == (move_number - 1) * 2 + 1

move_to_ply(move_number, perspective) ==
    LET base_ply == (move_number - 1) * 2 + 1
    IN  IF perspective = "black" THEN base_ply + 1 ELSE base_ply

(* Phase A: while current <= skip_ply and current <= max_ply.              *)
RECURSIVE PhaseA(_, _, _, _)
PhaseA(plies, current, skip_ply, max_ply) ==
    IF current <= skip_ply /\ current <= max_ply
    THEN PhaseA(Append(plies, current), current + 2, skip_ply, max_ply)
    ELSE plies

RECURSIVE PhaseBExclusive(_, _, _, _)
PhaseBExclusive(plies, current, ply_step, max_ply) ==
    IF current < max_ply
    THEN PhaseBExclusive(IF current \in Range(plies) THEN plies ELSE Append(plies, current),
                         current + ply_step, ply_step, max_ply)
    ELSE plies

(* Phase B: while current <= max_ply, skipping plies already listed.       *)
RECURSIVE PhaseB(_, _, _, _)
PhaseB(plies, current, ply_step, max_ply) ==
    IF current <= max_ply
    THEN PhaseB(IF current \in Range(plies) THEN plies ELSE Append(plies, current),
                current + ply_step, ply_step, max_ply)
    ELSE plies

(* sorted(plies).                                                          *)
RECURSIVE InsertSorted(_, _)
InsertSorted(sorted, x) ==
    IF sorted = << >> THEN <<x>>
    ELSE IF x < Head(sorted) THEN <<x>> \o sorted
    ELSE <<Head(sorted)>> \o InsertSorted(Tail(sorted), x)

RECURSIVE Sorted(_)
Sorted(list) ==
    IF list = << >> THEN << >>
    ELSE InsertSorted(Sorted(SubSeq(list, 1, Len(list) - 1)), list[Len(list)])

generate_analysis_plies_from_skip(config) ==
    LET start_ply == IF config.perspective = "white" THEN 1 ELSE 2
        max_ply == move_to_ply(config.max_move, config.perspective)
        phase_a == IF config.skip_first > 0
                   THEN PhaseA(<< >>, start_ply,
                               move_to_ply(config.skip_first, config.perspective), max_ply)
                   ELSE << >>
        interval_start_move == IF config.skip_first > 0
                               THEN config.skip_first
                               ELSE config.increment
        interval_start_ply == move_to_ply(interval_start_move, config.perspective)
        ply_step == config.increment * 2
    IN  phase_a \o PhaseB(<< >>, interval_start_ply, ply_step, max_ply)

generate_analysis_plies(config) ==
    LET start_ply == IF config.perspective = "white" THEN 1 ELSE 2
        max_ply == move_to_ply(config.max_move, config.perspective)
        phase_a == IF config.skip_first > 0
                   THEN PhaseA(<< >>, start_ply,
                               move_to_ply(config.skip_first, config.perspective), max_ply)
                   ELSE << >>
        interval_start_move == IF config.skip_first > 0
                               THEN config.skip_first + config.increment
                               ELSE config.increment
        interval_start_ply == move_to_ply(interval_start_move, config.perspective)
        ply_step == config.increment * 2
    IN  Sorted(PhaseB(phase_a, interval_start_ply, ply_step, max_ply))

(***************************************************************************)
(* The output game of _analyze_game: a tree of nodes in creation order.    *)
(* Node 0 is the root (the Game); node n > 0 is tree[n], with its parent   *)
(* and its move.  add_variation appends a child to the parent's            *)
(* variations, so a node's children in list order are its children in      *)
(* creation order and variation(0) is the oldest.                          *)
(***************************************************************************)
add_variation(tree, node, move) == Append(tree, [parent |-> node, move |-> move])

Children(tree, node) == {n \in DOMAIN tree : tree[n].parent = node}

FirstChild(tree, node) ==
    CHOOSE n \in Children(tree, node) : \A k \in Children(tree, node) : n <= k

(* The moves from `node` down, always following variation(0).              *)
RECURSIVE MainLineFrom(_, _)
MainLineFrom(tree, node) ==
    IF Children(tree, node) = {} THEN << >>
    ELSE <<tree[FirstChild(tree, node)].move>>
             \o MainLineFrom(tree, FirstChild(tree, node))

(* PvLoop without the test of legality.                                    *)
RECURSIVE PvLoopAddsIllegal(_, _, _, _, _, _)
PvLoopAddsIllegal(tree, current, pv, i, moves_added, extension) ==
    IF i > Len(pv) THEN tree
    ELSE IF moves_added >= extension THEN tree
    ELSE PvLoopAddsIllegal(add_variation(tree, current, pv[i].move), Len(tree) + 1,
                           pv, i + 1, moves_added + 1, extension)

(* The loop shared by _add_pv_to_node (lines 318-327) and _add_variation   *)
(* (lines 349-358): pv[i] and the moves after it are added under `current` *)
(* until `extension` moves were added or a move is not legal.              *)
RECURSIVE PvLoop(_, _, _, _, _, _)
PvLoop(tree, current, pv, i, moves_added, extension) ==
    IF i > Len(pv) THEN tree
    ELSE IF moves_added >= extension THEN tree
    ELSE IF ~pv[i].legal THEN tree
    ELSE PvLoop(add_variation(tree, current, pv[i].move), Len(tree) + 1,
                pv, i + 1, moves_added + 1, extension)

add_pv_to_node(tree, node, pv, extension) == PvLoop(tree, node, pv, 1, 0, extension)

add_variation_line(tree, node, pv, extension) ==
    IF pv = << >> THEN tree
    ELSE IF ~pv[1].legal THEN tree
    ELSE PvLoop(add_variation(tree, node, pv[1].move), Len(tree) + 1,
                pv, 2, 1, extension)

(* Lines 222-228: the accepted results go into the tree under output_node, *)
(* the first as a continuation, the others as variations.                  *)
RECURSIVE AddResults(_, _, _, _, _)
AddResults(tree, output_node, results, i, extension) ==
    IF i > Len(results) THEN tree
    ELSE AddResults(
             IF i = 1
             THEN add_pv_to_node(tree, output_node, results[i].pv, extension)
             ELSE add_variation_line(tree, output_node, results[i].pv, extension),
             output_node, results, i + 1, extension)

(* Lines 217-219: every accepted result goes to the book with its index in *)
(* the accepted list as rank.                                              *)
RECURSIVE AddBookEntries(_, _, _, _)
AddBookEntries(entries, pos_hash, results, i) ==
    IF i > Len(results) THEN entries
    ELSE AddBookEntries(add_entry(entries, pos_hash, results[i].move, i - 1),
                        pos_hash, results, i + 1)

(***************************************************************************)
(* SpecGame: one call of _analyze_game.  The input game is a main line of  *)
(* up to MaxGameLen moves from a position with either side to move; the    *)
(* plan is generate_analysis_plies of a configuration at the lower limits  *)
(* of CONSTRAINTS with a short opening phase.  At every analysed ply the   *)
(* engine answers with any list of at most `candidates` lines.             *)
(***************************************************************************)
MaxGameLen == 3
MaxSkipFirst == 2
MinIncrement == 5
MinMaxMove == 10
MinExtension == 3
MinTolerance == 50

GameCandidates == {1, 2}

Mv(from_square, to_square) ==
    [from_square |-> from_square, to_square |-> to_square, promotion |-> 0]

(* The moves of the input games: 1. e4 e5 2. Nf3 Nc6 3. Bb5 ...            *)
GameLine == <<Mv(12, 28), Mv(52, 36), Mv(6, 21), Mv(57, 42), Mv(5, 33)>>

(* Moves the engine may suggest instead.                                   *)
AltMove == Mv(11, 27)

AltReply == Mv(51, 35)

Pv(moves, legal) == [i \in DOMAIN moves |-> [move |-> moves[i], legal |-> legal[i]]]

(* The principal variations the engine may report where the game went on   *)
(* with game_move: the game move itself, a first move that is not legal, a *)
(* line whose second move is not legal, a line longer than the extension.  *)
GamePvs(game_move) ==
    { Pv(<<game_move>>, <<TRUE>>),
      Pv(<<AltMove>>, <<FALSE>>),
      Pv(<<AltMove, AltReply>>, <<TRUE, FALSE>>),
      Pv(<<AltMove, AltReply, AltMove, AltReply>>, <<TRUE, TRUE, TRUE, TRUE>>) }

GameScores == {None, <<"cp", 30>>, <<"cp", 200>>}

EngineAnswers(game_move, candidates) ==
    SeqsUpTo([pv : GamePvs(game_move), score : GameScores], candidates)

InitGame ==
    /\ \E len \in 0 .. MaxGameLen, first_turn \in {"white", "black"},
          perspective \in {"white", "black"}, skip_first \in 0 .. MaxSkipFirst,
          candidates \in GameCandidates, polyglot_writer \in BOOLEAN :
          LET config == [perspective |-> perspective, skip_first |-> skip_first,
                         increment |-> MinIncrement, max_move |-> MinMaxMove,
                         extension |-> MinExtension, tolerance |-> MinTolerance,
                         candidates |-> candidates]
          IN  ann = [ config             |-> config,
                      moves              |-> SubSeq(GameLine, 1, len),
                      first_turn         |-> first_turn,
                      polyglot_writer    |-> polyglot_writer,
                      analysis_plies     |-> generate_analysis_plies(config),
                      pc                 |-> "walking",
                      current_ply        |-> 0,
                      output_node        |-> 0,
                      tree               |-> << >>,
                      positions_analyzed |-> 0,
                      calls              |-> << >>,
                      entries            |-> << >> ]
    /\ plan = IdlePlan /\ conf = IdleConf
    /\ totalGames = 0 /\ pgn_enabled = TRUE /\ bin_enabled = TRUE
    /\ worker = << >> /\ stop_calls = 0
    /\ dist = IdleDist /\ flt = IdleFlt /\ book = IdleBook

GameFrame ==
    UNCHANGED <<conf, plan, totalGames, pgn_enabled, bin_enabled, worker, stop_calls,
                dist, flt, book>>

(* board.turn before the move of ply `ply` is made.                        *)
TurnAt(ply) ==
    IF ply % 2 = 1 THEN ann.first_turn
    ELSE IF ann.first_turn = "white" THEN "black" ELSE "white"

(* ShouldAnalyze without the test of the side to move.                     *)
ShouldAnalyzeAnySide(ply) ==
    ply \in Range(ann.analysis_plies)

(* Lines 203-211: the ply is planned and it is the perspective's turn.     *)
ShouldAnalyze(ply) ==
    /\ ply \in Range(ann.analysis_plies)
    /\ TurnAt(ply) = ann.config.perspective

(* One iteration of the while loop at a ply that is not analysed: the move *)
(* is copied under output_node.                                            *)
WalkPlainPly ==
    /\ ann.pc = "walking"
    /\ ann.current_ply < Len(ann.moves)
    /\ LET ply == ann.current_ply + 1
       IN  /\ ~ShouldAnalyze(ply)
           /\ ann' = [ann EXCEPT
                  !.current_ply = ply,
                  !.tree = add_variation(ann.tree, ann.output_node, ann.moves[ply]),
                  !.output_node = Len(ann.tree) + 1]
    /\ GameFrame

(* One iteration at an analysed ply: the engine is asked, the accepted     *)
(* results go to the book and into the tree, then the move is copied.      *)
WalkAnalyzedPly ==
    /\ ann.pc = "walking"
    /\ ann.current_ply < Len(ann.moves)
    /\ LET ply == ann.current_ply + 1
       IN  /\ ShouldAnalyze(ply)
           /\ \E infos \in EngineAnswers(ann.moves[ply], ann.config.candidates) :
                 LET results == analyze_position(analyze(infos), ann.config.tolerance)
                     tree1 == IF results # << >>
                              THEN AddResults(ann.tree, ann.output_node, results, 1,
                                              ann.config.extension)
                              ELSE ann.tree
                 IN  ann' = [ann EXCEPT
                         !.current_ply = ply,
                         !.positions_analyzed = @ + 1,
                         !.calls = Append(@, ply),
                         !.entries = IF results # << >> /\ ann.polyglot_writer
                                     THEN AddBookEntries(@, zobrist_hash(ply), results, 1)
                                     ELSE @,
                         !.tree = add_variation(tree1, ann.output_node, ann.moves[ply]),
                         !.output_node = Len(tree1) + 1]
    /\ GameFrame

(* engine.analyze raises (the engine process died): the exception leaves   *)
(* _analyze_position and _analyze_game, nothing is returned.               *)
RaiseInGame ==
    /\ ann.pc = "walking"
    /\ ann.current_ply < Len(ann.moves)
    /\ LET ply == ann.current_ply + 1
       IN  /\ ShouldAnalyze(ply)
           /\ ann' = [ann EXCEPT !.current_ply = ply,
                                 !.calls = Append(@, ply),
                                 !.pc = "raised"]
    /\ GameFrame

(* The main line is exhausted: output_game and the count are returned.     *)
ReturnGame ==
    /\ ann.pc = "walking"
    /\ ann.current_ply = Len(ann.moves)
    /\ ann' = [ann EXCEPT !.pc = "returned"]
    /\ GameFrame

NextGamePly == WalkPlainPly \/ WalkAnalyzedPly \/ RaiseInGame \/ ReturnGame

SpecGame == InitGame /\ [][NextGamePly]_vars

(* C6: the main line of the returned game (from the root, always the first *)
(* child) is move for move the input's main line.                          *)
C6_MainLinePreserved ==
    ann.pc = "returned" => MainLineFrom(ann.tree, 0) = ann.moves

(* C22: a returned _analyze_game has asked the engine exactly once at each *)
(* main-line ply that is in the plan and has the perspective to move, in   *)
(* ascending ply order and at no other ply, and the returned count is the  *)
(* number of those calls, whether or not any result was accepted.          *)
C22_EngineCalledOncePerPlannedPly ==
    ann.pc = "returned" =>
        /\ \A p \in 1 .. Len(ann.moves) :
              LET side == IF p % 2 = 1 THEN ann.first_turn
                          ELSE IF ann.first_turn = "white" THEN "black" ELSE "white"
                  due == /\ \E i \in DOMAIN ann.analysis_plies : ann.analysis_plies[i] = p
                         /\ side = ann.config.perspective
              IN  Cardinality({i \in DOMAIN ann.calls : ann.calls[i] = p})
                      = IF due THEN 1 ELSE 0
        /\ \A i \in DOMAIN ann.calls : ann.calls[i] \in 1 .. Len(ann.moves)
        /\ \A i, j \in DOMAIN ann.calls : i < j => ann.calls[i] < ann.calls[j]
        /\ ann.positions_analyzed = Len(ann.calls)

(* A returned game analysed at two plies, the other side's ply between     *)
(* them not analysed, and no result accepted at either: only the game      *)
(* moves are in the tree, yet both positions are counted.                  *)
C22_Witness ==
    /\ ann.pc = "returned"
    /\ Len(ann.moves) = MaxGameLen
    /\ ann.calls = <<1, 3>>
    /\ ann.positions_analyzed = 2
    /\ Len(ann.tree) = Len(ann.moves)

(***************************************************************************)
(* SpecFeed: one analysed position of _analyze_game with a book: the       *)
(* engine answers with at most `candidates` lines, _analyze_position       *)
(* filters them, and the accepted list is fed to the PolyglotWriter.       *)
(***************************************************************************)
FeedInfos == [pv : {<< >>, Pv(<<AltMove>>, <<TRUE>>)}, score : FilterScores]

InitFeed ==
    /\ \E candidates \in MinCandidates .. MaxCandidates, tolerance \in Tolerances :
          \E infos \in SeqsUpTo(FeedInfos, candidates) :
              flt = [candidates |-> candidates, tolerance |-> tolerance,
                     results |-> analyze(infos),
                     done |-> FALSE, ranks |-> << >>, accepted |-> << >>,
                     fed |-> FALSE, entries |-> << >>]
    /\ plan = IdlePlan /\ conf = IdleConf
    /\ totalGames = 0 /\ pgn_enabled = TRUE /\ bin_enabled = TRUE
    /\ worker = << >> /\ stop_calls = 0
    /\ dist = IdleDist /\ ann = IdleAnn /\ book = IdleBook

(* Lines 215-219: `for rank, result in enumerate(results)` over the list   *)
(* _analyze_position returned.                                             *)
FeedBook ==
    /\ flt.done
    /\ ~flt.fed
    /\ flt' = [flt EXCEPT !.fed = TRUE,
                          !.entries = IF flt.accepted # << >>
                                      THEN AddBookEntries(<< >>, zobrist_hash(1),
                                                          flt.accepted, 1)
                                      ELSE << >>]
    /\ UNCHANGED <<conf, plan, totalGames, pgn_enabled, bin_enabled, worker, stop_calls,
                   dist, ann, book>>

NextFeed == FilterPosition \/ FeedBook

SpecFeed == InitFeed /\ [][NextFeed]_vars

(* C26: every accepted result is fed to the book with the weight of the    *)
(* rank it had in the engine's ranked list (flt.ranks): 100, 50, 25 for    *)
(* ranks 0, 1, 2 and 25 beyond, also when a result of lower index was      *)
(* rejected.                                                               *)
C26_WeightOfOriginalRank ==
    flt.fed =>
        /\ Len(flt.entries) = Len(flt.ranks)
        /\ \A k \in DOMAIN flt.entries :
              flt.entries[k][3] = ( CASE flt.ranks[k] = 0 -> 100
                                      [] flt.ranks[k] = 1 -> 50
                                      [] OTHER -> 25 )

(***************************************************************************)
(* SpecLine: one call of _add_pv_to_node (rank 0) or _add_variation        *)
(* (rank >= 1) at a node of an output tree that holds one game move, on    *)
(* every principal variation of up to MaxPvLen moves, each legal or not in *)
(* the position reached so far.                                            *)
(***************************************************************************)
MaxPvLen == 5

LineExtensions == {MinExtension, MinExtension + 1}

LineMoves(n) == [i \in 1 .. n |-> IF i % 2 = 1 THEN AltMove ELSE AltReply]

LinePvs ==
    UNION { {Pv(LineMoves(n), legal) : legal \in [1 .. n -> BOOLEAN]} : n \in 0 .. MaxPvLen }

LineTree == add_variation(<< >>, 0, GameLine[1])

InitLine ==
    /\ \E rank \in 0 .. 1, pv \in LinePvs, extension \in LineExtensions,
          node \in 0 .. Len(LineTree) :
          ann = [pc |-> "line", rank |-> rank, pv |-> pv, extension |-> extension,
                 node |-> node, tree |-> LineTree]
    /\ plan = IdlePlan /\ conf = IdleConf
    /\ totalGames = 0 /\ pgn_enabled = TRUE /\ bin_enabled = TRUE
    /\ worker = << >> /\ stop_calls = 0
    /\ dist = IdleDist /\ flt = IdleFlt /\ book = IdleBook

(* Lines 224-228: the rank-0 line is a continuation, the others are        *)
(* variations.                                                             *)
InsertLine ==
    /\ ann.pc = "line"
    /\ ann' = [ann EXCEPT
           !.pc = "inserted",
           !.tree = IF ann.rank = 0
                    THEN add_pv_to_node(ann.tree, ann.node, ann.pv, ann.extension)
                    ELSE add_variation_line(ann.tree, ann.node, ann.pv, ann.extension)]
    /\ GameFrame

NextLine == InsertLine

SpecLine == InitLine /\ [][NextLine]_vars

(* The number of nodes the call added.                                     *)
Inserted == Len(ann.tree) - Len(LineTree)

(* C27: the nodes a call inserts are a chain under the node, carrying the  *)
(* first moves of the PV: at most `extension` of them, all legal, ending   *)
(* at the end of the PV, at `extension` or before the first move that is   *)
(* not legal; the tree is otherwise unchanged (the call returns normally); *)
(* a variation with an empty PV or an illegal first move adds no node.     *)
C27_LineIsLegalPrefix ==
    ann.pc = "inserted" =>
        /\ SubSeq(ann.tree, 1, Len(LineTree)) = LineTree
        /\ Inserted >= 0
        /\ Inserted <= ann.extension
        /\ Inserted <= Len(ann.pv)
        /\ \A i \in 1 .. Inserted :
              /\ ann.pv[i].legal
              /\ ann.tree[Len(LineTree) + i].move = ann.pv[i].move
              /\ ann.tree[Len(LineTree) + i].parent =
                    IF i = 1 THEN ann.node ELSE Len(LineTree) + i - 1
        /\ \/ Inserted = Len(ann.pv)
           \/ Inserted = ann.extension
           \/ ~ann.pv[Inserted + 1].legal
        /\ (ann.rank >= 1 /\ (ann.pv = << >> \/ ~ann.pv[1].legal)) => Inserted = 0

(* A variation (rank 1) whose PV has MaxPvLen moves, the third not legal:  *)
(* two nodes were inserted.                                                *)
C27_Witness ==
    /\ ann.pc = "inserted"
    /\ ann.rank = 1
    /\ Len(ann.pv) = MaxPvLen
    /\ ann.pv[1].legal /\ ann.pv[2].legal /\ ~ann.pv[3].legal
    /\ Inserted = 2

(***************************************************************************)
(* SpecPlan: generate_analysis_plies on every configuration that validate  *)
(* lets through (each parameter clamped into its CONSTRAINTS interval).    *)
(***************************************************************************)
SkipFirstMin == 0
SkipFirstMax == 20
IncrementMax == 15
MaxMoveMax == 37

PlanConfigs ==
    [perspective : {"white", "black"},
     skip_first : SkipFirstMin .. SkipFirstMax,
     increment : MinIncrement .. IncrementMax,
     max_move : MinMaxMove .. MaxMoveMax]

InitPlan ==
    /\ \E config \in PlanConfigs : plan = [config |-> config, done |-> FALSE, plies |-> << >>]
    /\ conf = IdleConf
    /\ totalGames = 0 /\ pgn_enabled = TRUE /\ bin_enabled = TRUE
    /\ worker = << >> /\ stop_calls = 0
    /\ dist = IdleDist /\ flt = IdleFlt /\ ann = IdleAnn /\ book = IdleBook

GeneratePlan ==
    /\ ~plan.done
    /\ plan' = [plan EXCEPT !.done = TRUE,
                            !.plies = generate_analysis_plies(plan.config)]
    /\ UNCHANGED <<conf, totalGames, pgn_enabled, bin_enabled, worker, stop_calls,
                   dist, flt, ann, book>>

NextPlan == GeneratePlan

SpecPlan == InitPlan /\ [][NextPlan]_vars

Planned == plan.done /\ "plies" \in DOMAIN plan

(* C14: the plan has no ply twice and ascends.                             *)
C14_PlanSortedNoDuplicates ==
    Planned =>
        \A i, j \in DOMAIN plan.plies : i < j => plan.plies[i] < plan.plies[j]

C14_Witness ==
    /\ Planned
    /\ plan.config.skip_first = 10
    /\ plan.config.increment = 5
    /\ plan.config.max_move = 37
    /\ Len(plan.plies) = 15

(* toPly of the specification.                                             *)
toPly(move_number, perspective) ==
    IF perspective = "white" THEN 2 * (move_number - 1) + 1
    ELSE 2 * (move_number - 1) + 2

(* C15: every planned ply is a ply of the perspective's side (odd for      *)
(* white, even for black) and is at most toPly(max_move, perspective);     *)
(* toPly(24, white) = 47.                                                  *)
C15_PlanOwnSideWithinMax ==
    /\ toPly(24, "white") = 47
    /\ move_to_ply(24, "white") = 47
    /\ Planned =>
        \A i \in DOMAIN plan.plies :
            /\ plan.plies[i] % 2 = (IF plan.config.perspective = "white" THEN 1 ELSE 0)
            /\ plan.plies[i] <= toPly(plan.config.max_move, plan.config.perspective)
            /\ plan.plies[i] >= 1

C15_Witness ==
    /\ Planned
    /\ plan.config.perspective = "black"
    /\ plan.config.max_move = 24
    /\ plan.config.skip_first = 4
    /\ plan.config.increment = 5
    /\ plan.plies = <<2, 4, 6, 8, 18, 28, 38, 48>>

(* The plan of the specification, as a set.                                *)
ReferencePlan(config) ==
    LET first == IF config.perspective = "white" THEN 1 ELSE 2
        maxPly == toPly(config.max_move, config.perspective)
        opening == IF config.skip_first > 0
                   THEN {p \in first .. Min(toPly(config.skip_first, config.perspective), maxPly) :
                            p % 2 = first % 2}
                   ELSE {}
        s == IF config.skip_first > 0 THEN config.skip_first + config.increment
             ELSE config.increment
        interval == {p \in toPly(s, config.perspective) .. maxPly :
                        (p - toPly(s, config.perspective)) % (2 * config.increment) = 0}
    IN  opening \cup interval

(* C16: the plan holds exactly the plies of the reference set; with        *)
(* max_move < skip_first these are the opening plies up to max_move, with  *)
(* skip_first = 0 and increment > max_move there are none.                 *)
C16_PlanIsReference ==
    Planned =>
        /\ Range(plan.plies) = ReferencePlan(plan.config)
        /\ Len(plan.plies) = Cardinality(ReferencePlan(plan.config))
        /\ plan.config.max_move < plan.config.skip_first =>
              Range(plan.plies) =
                  {toPly(move, plan.config.perspective) : move \in 1 .. plan.config.max_move}
        /\ (plan.config.skip_first = 0 /\ plan.config.increment > plan.config.max_move) =>
              plan.plies = << >>

C16_Witness ==
    /\ Planned
    /\ plan.config.perspective = "white"
    /\ plan.config.max_move = 12
    /\ plan.config.skip_first = 15
    /\ plan.plies = <<1, 3, 5, 7, 9, 11, 13, 15, 17, 19, 21, 23>>

(***************************************************************************)
(* Error handling and teardown of a worker (Spec).                         *)
(***************************************************************************)
LoadFailed(r) ==
    r.pc = "done" /\ r.finished # << >> /\ LastReport(r).message = "Failed to load engine"

RunFailed(r) ==
    r.pc = "done" /\ r.finished # << >> /\ LastReport(r).message = "Error"

(* C17: a worker whose engine load failed is Failed straight from Loading, *)
(* with the one report (failure, 0 games, 0 positions); it has begun no    *)
(* game, analysed no position and written neither temp PGN nor temp book.  *)
C17_LoadFailureIsDirect ==
    /\ [][\A w \in Workers :
            (worker[w].pc = "loading" /\ worker'[w].finished # worker[w].finished)
                => /\ WorkerState(worker'[w]) = "Failed"
                   /\ LoadFailed(worker'[w])]_vars
    /\ [](\A w \in Workers :
            LoadFailed(worker[w]) =>
                /\ worker[w].finished = <<Emit(FALSE, "Failed to load engine", 0, 0)>>
                /\ worker[w].begun = << >>
                /\ worker[w].annotated = << >>
                /\ worker[w].games_processed = 0
                /\ worker[w].positions = 0
                /\ worker[w].total_positions = 0
                /\ worker[w].entries = << >>
                /\ worker[w].temp_pgn = << >>
                /\ worker[w].temp_bin = << >>
                /\ ~worker[w].bin_written)

C17_Witness ==
    \E w \in Workers :
        /\ LoadFailed(worker[w])
        /\ Cardinality(worker[w].game_indices) = 2
        /\ pgn_enabled /\ bin_enabled

(* C18: the failure report of a worker whose engine call raised carries    *)
(* the counts accumulated up to the error: the games begun (with or        *)
(* without the one in which the call raised) and at least the positions of *)
(* the games completed.                                                    *)
C18_FailureCarriesPartialCounts ==
    \A w \in Workers :
        RunFailed(worker[w]) =>
            /\ LastReport(worker[w]).games >= worker[w].games_processed - 1
            /\ LastReport(worker[w]).games <= worker[w].games_processed
            /\ LastReport(worker[w]).positions >= worker[w].total_positions
            /\ LastReport(worker[w]).positions
                   <= worker[w].total_positions + worker[w].positions

(* C19: a worker that has reported success (Completed or Stopped, an empty *)
(* assignment included) has written its book when it has a book writer     *)
(* with entries, and has released its engine.                              *)
C19_SuccessAfterBookAndRelease ==
    \A w \in Workers :
        Succeeded(worker[w]) =>
            /\ (worker[w].polyglot_writer /\ worker[w].entries # << >>)
                   => worker[w].bin_written
            /\ ~worker[w].engine

(* C20: a worker in the Failed state (load failure or an exception in the  *)
(* run loop) holds no open engine.                                         *)
C20_FailedReleasesEngine ==
    \A w \in Workers :
        WorkerState(worker[w]) = "Failed" => ~worker[w].engine

(***************************************************************************)
(* Order of the games within one worker (Spec).                            *)
(***************************************************************************)
Front(s) == SubSeq(s, 1, Len(s) - 1)

(* C24: the games a worker has passed to _analyze_game are strictly        *)
(* ascending in input index (so each at most once) and all assigned to the *)
(* worker; while a game is being annotated every earlier one has been      *)
(* annotated and, with a PGN writer, written; a game is written only when  *)
(* annotated.                                                              *)
C24_GamesAscendingOneAtATime ==
    \A w \in Workers :
        LET r == worker[w]
        IN  /\ \A i, j \in DOMAIN r.begun : i < j => r.begun[i] < r.begun[j]
            /\ \A i \in DOMAIN r.begun :
                  r.begun[i] \in r.game_indices /\ r.begun[i] \in 0 .. totalGames - 1
            /\ r.annotated = r.begun \/ r.annotated = Front(r.begun)
            /\ r.pc = "analyzing" =>
                  /\ r.begun # << >>
                  /\ r.annotated = Front(r.begun)
                  /\ r.pgn_writer => r.temp_pgn = r.annotated
            /\ r.pc = "writing" =>
                  /\ r.annotated = r.begun
                  /\ r.pgn_writer => r.temp_pgn = Front(r.begun)
            /\ r.pgn_writer =>
                  r.temp_pgn = r.annotated \/ r.temp_pgn = Front(r.annotated)
            /\ ~r.pgn_writer => r.temp_pgn = << >>

(* The second worker of two skipped game 0 and is annotating game 1 while  *)
(* the first, which took game 0 and skipped game 1, has written its game.  *)
C24_Witness ==
    /\ Workers = {0, 1}
    /\ totalGames = MaxGames
    /\ worker[1].pc = "analyzing"
    /\ worker[1].begun = <<1>>
    /\ worker[1].annotated = << >>
    /\ worker[0].pc = "bookwrite"
    /\ worker[0].begun = <<0>>
    /\ worker[0].temp_pgn = <<0>>

(* C25: a worker that ended Completed has annotated exactly the games of   *)
(* the input that are assigned to it, each once; its report counts them;   *)
(* with PGN output each was written once to its temp PGN.                  *)
C25_CompletedCoversAssignment ==
    \A w \in Workers :
        LET r == worker[w]
        IN  WorkerState(r) = "Completed" =>
                /\ r.begun = AssignedInInput(r)
                /\ r.annotated = AssignedInInput(r)
                /\ LastReport(r).games =
                      Cardinality({g \in r.game_indices : g < totalGames})
                /\ pgn_enabled => r.temp_pgn = AssignedInInput(r)

(* Two workers ended Completed without a stop request, one game each, each *)
(* in the worker's temp PGN.                                               *)
C25_Witness ==
    /\ Workers = {0, 1}
    /\ totalGames = 2
    /\ pgn_enabled
    /\ \A w \in Workers :
          /\ ~worker[w].stop_requested
          /\ WorkerState(worker[w]) = "Completed"
          /\ LastReport(worker[w]).message = "Complete"
          /\ LastReport(worker[w]).games = 1
          /\ worker[w].temp_pgn = <<w>>

(***************************************************************************)
(* FairSpec: one thread of the pool, scheduled.  The threads share only    *)
(* the read-only input and configuration, so one worker of a pool of       *)
(* num_workers is followed on its own, with its share of the games.  A     *)
(* thread that has loaded its engine and can take a step of _run_analysis  *)
(* eventually takes one: the engine calls and file writes in it return (or *)
(* the engine call raises, which is EngineError and ends the thread).      *)
(***************************************************************************)
WorkerIds == 0 .. MaxWorkers - 1

InitOneThread ==
    /\ totalGames \in 0 .. MaxGames
    /\ pgn_enabled \in BOOLEAN
    /\ bin_enabled \in BOOLEAN
    /\ pgn_enabled \/ bin_enabled
    /\ stop_calls = 0
    /\ \E num_workers \in 1 .. MaxWorkers : \E w \in 0 .. num_workers - 1 :
           worker = (w :> NewWorker(distribute_games(totalGames, num_workers)[w]))
    /\ dist = IdleDist
    /\ flt = IdleFlt
    /\ ann = IdleAnn
    /\ book = IdleBook
    /\ plan = IdlePlan /\ conf = IdleConf

RunStep(w) ==
    /\ w \in Workers
    /\ \/ Setup(w) \/ NextGame(w) \/ AnalyzePosition(w) \/ FinishGame(w)
       \/ WriteGame(w) \/ WriteBook(w) \/ CloseEngine(w) \/ Report(w)

FairSpec == InitOneThread /\ [][Next]_vars /\ \A w \in WorkerIds : WF_vars(RunStep(w))

(* A Running worker whose stop flag is set.                                *)
StopPending(w) ==
    /\ w \in Workers
    /\ WorkerState(worker[w]) = "Running"
    /\ worker[w].stop_requested

(* The worker has ended Stopped, or Failed on an engine call that raised   *)
(* instead of returning.                                                   *)
StoppedOrRaised(w) ==
    /\ w \in Workers
    /\ WorkerState(worker[w]) = "Stopped" \/ RunFailed(worker[w])

(* Once the flag is set no game is begun, and the only game that can still *)
(* be completed is the one begun before.                                   *)
NoGameAfterStop(w) ==
    (w \in Workers /\ worker[w].stop_requested) =>
        /\ worker'[w].begun = worker[w].begun
        /\ Len(worker'[w].annotated) <= Len(worker[w].begun)
        /\ Len(worker[w].begun) - Len(worker[w].annotated) <= 1

(* C23 as stated: every Running worker that is asked to stop begins no     *)
(* further game, completes at most the game in flight and eventually is    *)
(* Stopped (engine calls that return assumed).                             *)
C23_Original ==
    /\ [][\A w \in Workers : NoGameAfterStop(w)]_vars
    /\ \A w \in WorkerIds : StopPending(w) ~> StoppedOrRaised(w)

(* C23: every Running worker with at least one assigned game that is asked *)
(* to stop begins no further game, completes at most the game in flight    *)
(* and eventually is Stopped (engine calls that return assumed).           *)
C23_StopResponseBounded ==
    /\ [][\A w \in Workers : NoGameAfterStop(w)]_vars
    /\ \A w \in WorkerIds :
          (StopPending(w) /\ worker[w].game_indices # {}) ~> StoppedOrRaised(w)

(* The only worker of a pool, with two games and a book only, was asked to *)
(* stop during its first game: it ended Stopped with that one game, the    *)
(* second never begun.                                                     *)
C23_Witness ==
    /\ Workers = {0}
    /\ worker[0].game_indices = {0, 1}
    /\ totalGames = 2
    /\ ~worker[0].pgn_writer
    /\ worker[0].stop_requested
    /\ WorkerState(worker[0]) = "Stopped"
    /\ worker[0].begun = <<0>>
    /\ worker[0].annotated = <<0>>
    /\ LastReport(worker[0]).games = 1
    /\ worker[0].bin_written

(* The step in which worker w emits a successful terminal report.          *)
ReportsSuccess(w) ==
    /\ worker'[w].finished # worker[w].finished
    /\ LastReport(worker'[w]).success

(* What the report emitted in this step must be, given the flag and the    *)
(* counters at the moment it is produced.                                  *)
ReportFollowsFlag(w) ==
    /\ LastReport(worker'[w]).message = "Stopped" <=> worker[w].stop_requested
    /\ WorkerState(worker'[w]) = "Completed" <=> ~worker[w].stop_requested
    /\ LastReport(worker'[w]).games = worker[w].games_processed
    /\ LastReport(worker'[w]).games = Len(worker[w].annotated)
    /\ (worker[w].stop_requested /\ worker[w].begun = << >>)
          => LastReport(worker'[w]).games = 0
    /\ (~worker[w].stop_requested)
          => worker[w].annotated = AssignedInInput(worker[w])

(* C28 as stated: every successful terminal report is Stopped exactly when *)
(* the stop flag is set at the moment the report is produced, with the     *)
(* count of the games processed (all of them when the request came during  *)
(* or after the last game, 0 when it came before the first).               *)
C28_Original ==
    [][\A w \in Workers : ReportsSuccess(w) => ReportFollowsFlag(w)]_vars

(* C28: the terminal report of a worker that has at least one assigned     *)
(* game and whose engine calls all returned is Stopped exactly when the    *)
(* stop flag is set at the moment the report is produced, with the count   *)
(* of the games processed; the report of a worker without assigned games   *)
(* is "No games assigned" whatever the flag.                               *)
C28_ReportFollowsStopFlag ==
    [][\A w \in Workers :
          ReportsSuccess(w) =>
              IF worker[w].game_indices # {}
              THEN ReportFollowsFlag(w)
              ELSE LastReport(worker'[w]) = Emit(TRUE, "No games assigned", 0, 0)]_vars

(* The request came during or after the last of two games: the report is   *)
(* Stopped with both games counted.                                        *)
C28_Witness ==
    \E w \in Workers :
        /\ worker[w].game_indices = {0, 1}
        /\ totalGames = 2
        /\ worker[w].stop_requested
        /\ worker[w].pc = "done"
        /\ LastReport(worker[w]) = Emit(TRUE, "Stopped", 2, PositionsInGame(0) + PositionsInGame(1))
        /\ worker[w].annotated = <<0, 1>>

(* C29: a worker that failed during analysis after j completed games      *)
(* keeps those j games, and only those, in its temp PGN (when it writes    *)
(* one) and has no temp book file, whatever it had accumulated.            *)
C29_FailureKeepsPgnDropsBook ==
    \A w \in Workers :
        LET r == worker[w]
        IN  RunFailed(r) =>
                /\ r.begun # << >>
                /\ r.annotated = Front(r.begun)
                /\ r.pgn_writer => r.temp_pgn = r.annotated
                /\ ~r.bin_written
                /\ r.temp_bin = << >>

(* A worker with a book and a PGN failed in its second game: the first     *)
(* game is in the temp PGN, its book entries are in memory only.           *)
C29_Witness ==
    \E w \in Workers :
        /\ RunFailed(worker[w])
        /\ worker[w].polyglot_writer
        /\ worker[w].pgn_writer
        /\ worker[w].begun = <<0, 1>>
        /\ worker[w].temp_pgn = <<0>>
        /\ worker[w].entries # << >>
        /\ ~worker[w].bin_written

(* C30: a worker without assigned games never enters the game loop: it    *)
(* reads no game, makes no engine call and writes neither temp file, and   *)
(* once its engine is loaded it ends with the one report (success, 0       *)
(* games, 0 positions); and a PolyglotWriter.write call on no entries      *)
(* creates no file and returns 0.                                          *)
C30_EmptyWorkProducesNothing ==
    \A w \in Workers :
        LET r == worker[w]
        IN  /\ r.game_indices = {} =>
                  /\ r.pc \in {"idle", "loading", "setup", "done"}
                  /\ r.game_index = 0
                  /\ r.begun = << >>
                  /\ r.positions = 0
                  /\ r.entries = << >>
                  /\ r.temp_pgn = << >>
                  /\ ~r.bin_written
                  /\ r.temp_bin = << >>
                  /\ r.entries_written = << >>
                  /\ (r.pc = "done" /\ ~LoadFailed(r)) =>
                        /\ r.engine
                        /\ r.finished = <<Emit(TRUE, "No games assigned", 0, 0)>>
            /\ (r.entries_written # << >> /\ r.entries = << >>) =>
                  /\ r.entries_written = <<0>>
                  /\ ~r.bin_written
                  /\ r.temp_bin = << >>

(* One game for two workers: the second had nothing to do and reported     *)
(* success with 0 games; the first was stopped before its game and its     *)
(* book, still empty, was written: no file, 0 entries.                     *)
C30_Witness ==
    /\ Workers = {0, 1}
    /\ totalGames = 1
    /\ worker[1].game_indices = {}
    /\ worker[1].pc = "done"
    /\ worker[1].finished = <<Emit(TRUE, "No games assigned", 0, 0)>>
    /\ worker[0].pc = "done"
    /\ worker[0].polyglot_writer
    /\ worker[0].entries = << >>
    /\ worker[0].entries_written = <<0>>
    /\ ~worker[0].bin_written

(***************************************************************************)
(* SpecConfig: an AnalysisConfig object.  It is created by the constructor *)
(* (keyword arguments over the field defaults, then __post_init__) or by   *)
(* from_dict (keys over the same defaults, then validate); apply_preset    *)
(* and validate then act on it.  A later creation gives a new object, so   *)
(* the objects after any sequence of calls are those of one creation       *)
(* followed by apply_preset and validate calls.  time_limit is a float:    *)
(* it is counted in tenths of a second.                                    *)
(***************************************************************************)
MaxKeys == 2
FallbackDepth == 16

CONSTRAINTS ==
    [ skip_first    |-> <<SkipFirstMin, SkipFirstMax>>,
      increment     |-> <<MinIncrement, IncrementMax>>,
      max_move      |-> <<MinMaxMove, MaxMoveMax>>,
      extension     |-> <<MinExtension, 10>>,
      candidates    |-> <<MinCandidates, MaxCandidates>>,
      tolerance     |-> <<MinTolerance, 500>>,
      depth_limit   |-> <<0, 30>>,
      time_limit    |-> <<0, 300>>,
      split_size_mb |-> <<1, 50>>,
      num_workers   |-> <<0, 4>> ]

Defaults ==
    [ skip_first |-> 0, increment |-> 7, max_move |-> 24, extension |-> 5,
      candidates |-> 1, tolerance |-> 150, depth_limit |-> 16, time_limit |-> 20,
      split_size_mb |-> 10, num_workers |-> 0,
      pgn_enabled |-> TRUE, bin_enabled |-> TRUE, preset |-> "Blitz Repertoire" ]

(* (skip, increment, max_move, extension, candidates, tolerance,           *)
(* depth_limit, time_limit)                                                *)
PRESET_VALUES ==
    [ QuickScan       |-> <<0, 10, 20, 3, 1, 200, 12, 10>>,
      DeepPrep        |-> <<0, 5, 30, 8, 2, 75, 20, 50>>,
      BlitzRepertoire |-> <<0, 7, 24, 5, 1, 150, 16, 20>> ]

Max(a, b) == IF a >= b THEN a ELSE b

Clamp(param, value) ==
    Max(CONSTRAINTS[param][1], Min(CONSTRAINTS[param][2], value))

validate_clamp_only(c) ==
    [param \in DOMAIN c |->
        IF param \in DOMAIN CONSTRAINTS THEN Clamp(param, c[param]) ELSE c[param]]

validate(c) ==
    LET clamped == [param \in DOMAIN c |->
                       IF param \in DOMAIN CONSTRAINTS THEN Clamp(param, c[param])
                       ELSE c[param]]
        output == IF ~clamped.pgn_enabled /\ ~clamped.bin_enabled
                  THEN [clamped EXCEPT !.pgn_enabled = TRUE]
                  ELSE clamped
    IN  IF output.depth_limit = 0 /\ output.time_limit = 0
        THEN [output EXCEPT !.depth_limit = FallbackDepth]
        ELSE output

apply_preset(c, preset) ==
    IF preset = "Custom" THEN [c EXCEPT !.preset = "Custom"]
    ELSE LET values == PRESET_VALUES[preset]
         IN  validate([c EXCEPT !.skip_first = values[1], !.increment = values[2],
                                !.max_move = values[3], !.extension = values[4],
                                !.candidates = values[5], !.tolerance = values[6],
                                !.depth_limit = values[7], !.time_limit = values[8],
                                !.preset = preset])

(* The values a caller may pass for a field: below, at and above the       *)
(* limits of a constrained parameter; either value of a flag.              *)
RawValues(param) ==
    IF param \in DOMAIN CONSTRAINTS
    THEN {CONSTRAINTS[param][1] - 1, CONSTRAINTS[param][1],
          CONSTRAINTS[param][2], CONSTRAINTS[param][2] + 1}
    ELSE BOOLEAN

InputKeys == DOMAIN CONSTRAINTS \cup {"pgn_enabled", "bin_enabled"}

(* The dicts with exactly the given keys.                                  *)
RECURSIVE DictsOver(_)
DictsOver(keys) ==
    IF keys = {} THEN {<< >>}
    ELSE LET key == CHOOSE k \in keys : TRUE
         IN  {(key :> value) @@ data :
                 value \in RawValues(key), data \in DictsOver(keys \ {key})}

(* The keyword arguments or the dict of a creation: at most MaxKeys keys.  *)
Inputs ==
    UNION {DictsOver(keys) : keys \in {ks \in SUBSET InputKeys : Cardinality(ks) <= MaxKeys}}

Override(c, data) ==
    [param \in DOMAIN c |-> IF param \in DOMAIN data THEN data[param] ELSE c[param]]

InitConfig ==
    /\ conf = [created |-> FALSE]
    /\ plan = IdlePlan
    /\ totalGames = 0 /\ pgn_enabled = TRUE /\ bin_enabled = TRUE
    /\ worker = << >> /\ stop_calls = 0
    /\ dist = IdleDist /\ flt = IdleFlt /\ ann = IdleAnn /\ book = IdleBook

ConfFrame ==
    UNCHANGED <<plan, totalGames, pgn_enabled, bin_enabled, worker, stop_calls,
                dist, flt, ann, book>>

(* AnalysisConfig(kwargs): the fields are set, __post_init__ validates.    *)
Construct ==
    /\ ~conf.created
    /\ \E kwargs \in Inputs :
          conf' = [created |-> TRUE, config |-> validate(Override(Defaults, kwargs))]
    /\ ConfFrame

(* from_dict: cls(), every field from data.get(key, default), validate.    *)
FromDict ==
    /\ ~conf.created
    /\ \E data \in Inputs :
          conf' = [created |-> TRUE,
                   config |-> validate(Override(validate(Defaults), data))]
    /\ ConfFrame

ApplyPreset ==
    /\ conf.created
    /\ \E preset \in DOMAIN PRESET_VALUES \cup {"Custom"} :
          conf' = [conf EXCEPT !.config = apply_preset(@, preset)]
    /\ ConfFrame

Validate ==
    /\ conf.created
    /\ conf' = [conf EXCEPT !.config = validate(@)]
    /\ ConfFrame

NextConfig == Construct \/ FromDict \/ ApplyPreset \/ Validate

SpecConfig == InitConfig /\ [][NextConfig]_vars

====
